---- MODULE Spec2Model ----
(***************************************************************************)
(* GatewayClient (src/unnamed/part_001): the WebSocket client of the       *)
(* gateway.  One client object, the WebSocket objects it creates, the      *)
(* timers it arms and the promises it hands out.                           *)
(*                                                                         *)
(* Every browser task (a socket event, a timer) is one action: the handler *)
(* followed by the promise callbacks (microtasks) it made runnable.  An    *)
(* application call (start, stop, forceReconnect, updateCredentials,       *)
(* request) is one action too; the promise callbacks it makes runnable run *)
(* in RunMicrotasks, after the calling code has returned, so further       *)
(* application calls may come in between.                                  *)
(*                                                                         *)
(* Handlers are operators from a world record to a world record, so that   *)
(* a handler that calls another (forceReconnect -> start, handleMessage -> *)
(* sendConnect -> request) is the composition the code performs.           *)
(***************************************************************************)
EXTENDS Integers, Sequences, FiniteSets, TLC

\* ---------------------------------------------------------------- bounds
\* WebSocket objects the client may create in one run (of SpecBackoff, the
\* longest), and in one run of Spec.
MaxSockets == 7
LifecycleSockets == 3
\* request() calls that get a correlation id in one run (handshakes included).
MaxCalls == 3
\* The clock runs from 1 to MaxNow, in units of half a tick interval.
MaxNow == 7
\* start(), stop(), forceReconnect() and updateCredentials() calls the
\* application makes in one run.
MaxApiCalls == 3
\* Sockets and lifecycle calls of a run of SpecCalls.
CallsSockets == 2
CallsApiCalls == 2
\* Correlation ids of a run of Spec (its calls are the handshakes).
LifecycleCalls == 2
\* Handshakes and lifecycle calls of a run of SpecBackoff.
BackoffCalls == 1
BackoffApiCalls == 2
\* Event observers of the application, the event frames dispatched to them in
\* one run, and the sockets, handshakes and lifecycle calls of a run of
\* SpecEvents.
MaxObservers == 2
MaxEvents == 2
EventsSockets == 2
EventsCalls == 1
EventsApiCalls == 2
\* Calls, sockets and lifecycle calls of a run of SpecErrors.
ErrorsCalls == 2
ErrorsSockets == 2
ErrorsApiCalls == 2

\* ------------------------------------------------------ program constants
BaseBackoffMs == 1000
MaxBackoffMs == 30000
\* close codes: the argument of ws.close(code, reason); NoCode is close().
NoCode == 0
StaleCode == 4001
ConnectFailedCode == 4008

Null == 0
Sockets == 1..MaxSockets
Observers == 1..MaxObservers
CallIds == 1..MaxCalls
\* url and token values: 1 is the constructor's, 2 a changed one.
Urls == {1}
Tokens == {1, 2}
\* policy.tickIntervalMs of a hello payload, in clock units; 0: absent.
TickIntervals == {0, 2}

VARIABLES
    ws,                \* this.ws: the socket held, or Null
    pending,           \* this.pending: the correlation ids in the table
    backoffMs,         \* this.backoffMs
    closed,            \* this.closed
    url,               \* this.url
    token,             \* this.token
    state,             \* this._state
    reconnectTimer,    \* this.reconnectTimer: the handle of the last backoff timer, or Null
    connectSent,       \* this.connectSent
    lastTickAt,        \* this.lastTickAt, Null when unknown
    tickIntervalMs,    \* this.tickIntervalMs, Null when unknown
    tickCheckTimer,    \* this.tickCheckTimer is armed
    reconnectAttempts, \* this.reconnectAttempts
    rs,                \* readyState of every WebSocket object ("NONE": not created yet)
    opened,            \* the sockets not yet closed whose open event was delivered
    code,              \* the code of the close() under way on each socket
    grace,             \* the sockets whose 500 ms grace timer is armed
    timers,            \* the backoff timers outstanding (armed, neither fired nor cleared)
    timerDelay,        \* the delay each outstanding backoff timer was armed with
    timerBefore,       \* the grace timers that were armed when each backoff timer was
    calls,             \* every request() promise: method, socket, outcome
    micro,             \* promise callbacks runnable and not yet run
    now,               \* Date.now()
    apiCalls,          \* lifecycle calls the application has made
    lastCall,          \* the last of start(), stop(), forceReconnect() the application called
    lastRequest,       \* how the application's last request() call went
    sinceHandshake,    \* reconnects scheduled since the last successful handshake
    sinceReset,        \* the same, since the last successful handshake or forceReconnect()
    health,            \* the health snapshot last broadcast (at first: the getter's value)
    eventHandlers,     \* this.eventHandlers: the observers, in the array's order
    registered,        \* the observers that have called onEvent
    arrived,           \* event frames dispatched to at least one observer so far
    received           \* the event frames each observer was called with, in order

vars == <<ws, pending, backoffMs, closed, url, token, state, reconnectTimer,
          connectSent, lastTickAt, tickIntervalMs, tickCheckTimer,
          reconnectAttempts, rs, opened, code, grace, timers, timerDelay,
          timerBefore, calls, micro, now, apiCalls, lastCall, lastRequest,
          sinceHandshake, sinceReset, health, eventHandlers, registered,
          arrived, received>>

\* The world a handler runs in.  c holds the bounds of the run: sockets,
\* correlation ids and lifecycle calls.  ovf is set when a handler needs a
\* socket or a correlation id beyond them; such a step is not taken.
World(c) ==
    [ws |-> ws, pending |-> pending, backoffMs |-> backoffMs, closed |-> closed,
     url |-> url, token |-> token, state |-> state,
     reconnectTimer |-> reconnectTimer, connectSent |-> connectSent,
     lastTickAt |-> lastTickAt, tickIntervalMs |-> tickIntervalMs,
     tickCheckTimer |-> tickCheckTimer, reconnectAttempts |-> reconnectAttempts,
     rs |-> rs, opened |-> opened, code |-> code, grace |-> grace,
     timers |-> timers, timerDelay |-> timerDelay, timerBefore |-> timerBefore,
     calls |-> calls, micro |-> micro, now |-> now,
     sinceHandshake |-> sinceHandshake, sinceReset |-> sinceReset,
     health |-> health, eventHandlers |-> eventHandlers,
     registered |-> registered, arrived |-> arrived, received |-> received,
     ovf |-> FALSE,
     maxSockets |-> c.sockets, maxIds |-> c.ids]

\* The world a handler left becomes the next state.  A browser task (a socket
\* event, a timer) leaves the application's counters alone.
Commit(w) ==
    /\ ~w.ovf
    /\ ws' = w.ws /\ pending' = w.pending /\ backoffMs' = w.backoffMs
    /\ closed' = w.closed /\ url' = w.url /\ token' = w.token
    /\ state' = w.state /\ reconnectTimer' = w.reconnectTimer
    /\ connectSent' = w.connectSent /\ lastTickAt' = w.lastTickAt
    /\ tickIntervalMs' = w.tickIntervalMs /\ tickCheckTimer' = w.tickCheckTimer
    /\ reconnectAttempts' = w.reconnectAttempts
    /\ rs' = w.rs /\ opened' = w.opened /\ code' = w.code /\ grace' = w.grace
    /\ timers' = w.timers /\ timerDelay' = w.timerDelay
    /\ timerBefore' = w.timerBefore /\ calls' = w.calls /\ micro' = w.micro
    /\ now' = w.now
    /\ sinceHandshake' = w.sinceHandshake /\ sinceReset' = w.sinceReset
    /\ health' = w.health
    /\ eventHandlers' = w.eventHandlers /\ registered' = w.registered
    /\ arrived' = w.arrived /\ received' = w.received

Task(w) == Commit(w) /\ UNCHANGED <<apiCalls, lastCall, lastRequest>>

\* A lifecycle call of the application, which makes at most c.api of them.
ApiCall(c, w, name) ==
    /\ apiCalls < c.api
    /\ Commit(w)
    /\ apiCalls' = apiCalls + 1
    /\ lastCall' = name
    /\ UNCHANGED lastRequest

NoCall == [method |-> "none", sock |-> Null, token |-> Null, status |-> "unused",
           by |-> "none", via |-> Null, settles |-> 0, error |-> ""]

Init ==
    /\ ws = Null /\ pending = {} /\ backoffMs = BaseBackoffMs /\ closed = FALSE
    /\ url = 1 /\ token = 1 /\ state = "disconnected" /\ reconnectTimer = Null
    /\ connectSent = FALSE /\ lastTickAt = Null /\ tickIntervalMs = Null
    /\ tickCheckTimer = FALSE /\ reconnectAttempts = 0
    /\ rs = [s \in Sockets |-> "NONE"] /\ opened = {}
    /\ code = [s \in Sockets |-> NoCode] /\ grace = {}
    /\ timers = {} /\ timerDelay = [s \in Sockets |-> 0]
    /\ timerBefore = [s \in Sockets |-> {}]
    /\ calls = [i \in CallIds |-> NoCall] /\ micro = <<>>
    /\ now = 1
    /\ apiCalls = 0
    /\ lastCall = "none"
    /\ lastRequest = "none"
    /\ sinceHandshake = 0 /\ sinceReset = 0
    /\ health = [state |-> "disconnected", lastTickAt |-> Null,
                 tickIntervalMs |-> Null, isStale |-> FALSE, reconnectAttempts |-> 0]
    /\ eventHandlers = <<>> /\ registered = {} /\ arrived = 0
    /\ received = [h \in Observers |-> <<>>]

\* ------------------------------------------------------------ the client

Min(a, b) == IF a < b THEN a ELSE b

\* isConnectionStale with the test of the lifecycle state left out.
IsConnectionStaleAnyState(w) ==
    IF w.lastTickAt = Null \/ w.tickIntervalMs = Null THEN FALSE
    ELSE 2 * (w.now - w.lastTickAt) > 5 * w.tickIntervalMs

\* isConnectionStale with a factor of 3 for the 2.5.
IsConnectionStaleAfterThree(w) ==
    IF w.state # "connected" THEN FALSE
    ELSE IF w.lastTickAt = Null \/ w.tickIntervalMs = Null THEN FALSE
    ELSE w.now - w.lastTickAt > 3 * w.tickIntervalMs

\* isConnectionStale that also wants the transport open.
IsConnectionStaleWhileOpen(w) ==
    IF w.state # "connected" THEN FALSE
    ELSE IF w.ws = Null \/ w.rs[w.ws] # "OPEN" THEN FALSE
    ELSE IF w.lastTickAt = Null \/ w.tickIntervalMs = Null THEN FALSE
    ELSE 2 * (w.now - w.lastTickAt) > 5 * w.tickIntervalMs

\* get health / isConnectionStale: elapsed > tickIntervalMs * 2.5, in integers.
IsConnectionStale(w) ==
    IF w.state # "connected" THEN FALSE
    ELSE IF w.lastTickAt = Null \/ w.tickIntervalMs = Null THEN FALSE
    ELSE 2 * (w.now - w.lastTickAt) > 5 * w.tickIntervalMs

\* get health
Health(w) ==
    [state |-> w.state, lastTickAt |-> w.lastTickAt,
     tickIntervalMs |-> w.tickIntervalMs, isStale |-> IsConnectionStale(w),
     reconnectAttempts |-> w.reconnectAttempts]

\* emitHealth: the snapshot handed to the health observers.
EmitHealth(w) == [w EXCEPT !.health = Health(w)]

\* setState: assigns _state and broadcasts the health (the state observers it
\* notifies hold no client state).
SetState(w, s) == EmitHealth([w EXCEPT !.state = s])

StopTickMonitor(w) == [w EXCEPT !.tickCheckTimer = FALSE]

StartTickMonitor(w) == [StopTickMonitor(w) EXCEPT !.tickCheckTimer = TRUE]

\* WebSocket.close(code) on socket s: CONNECTING or OPEN becomes CLOSING, the
\* close event comes later; on a CLOSING or CLOSED socket it does nothing.
SocketClose(w, s, c) ==
    IF w.rs[s] \in {"CONNECTING", "OPEN"}
    THEN [w EXCEPT !.rs[s] = "CLOSING", !.code[s] = c]
    ELSE w

\* this.ws?.close(code)
WsClose(w, c) == IF w.ws = Null THEN w ELSE SocketClose(w, w.ws, c)

\* new WebSocket(url): the next socket object, CONNECTING.
FreeSockets(w) == {s \in Sockets : w.rs[s] = "NONE"}
NextSocket(w) == CHOOSE s \in FreeSockets(w) : \A x \in FreeSockets(w) : s <= x
NewWebSocket(w) ==
    IF Cardinality(Sockets \ FreeSockets(w)) >= w.maxSockets THEN [w EXCEPT !.ovf = TRUE]
    ELSE [w EXCEPT !.ws = NextSocket(w), !.rs[NextSocket(w)] = "CONNECTING"]

\* start()
Start(w) ==
    IF w.closed THEN w
    ELSE NewWebSocket([SetState(w, "connecting") EXCEPT !.connectSent = FALSE])

\* A promise of request() is settled: resolve (ok) or reject.  The handshake's
\* promise has the .then/.catch of sendConnect attached, which become runnable.
SettleCall(w, i, ok, by, via, tick) ==
    [w EXCEPT
        !.calls[i] = [@ EXCEPT !.status = IF ok THEN "resolved" ELSE "rejected",
                               !.by = by, !.via = via, !.settles = @ + 1],
        !.micro = IF w.calls[i].method = "connect"
                  THEN Append(@, [kind |-> IF ok THEN "then" ELSE "catch", tick |-> tick])
                  ELSE @]

\* flushPendingErrors: rejects every pending call, in the Map's insertion
\* order (ids ascend), and clears the table.
RECURSIVE RejectAll(_, _, _)
RejectAll(w, ids, by) ==
    IF ids = {} THEN w
    ELSE LET i == CHOOSE x \in ids : \A y \in ids : x <= y
         IN RejectAll(SettleCall(w, i, FALSE, by, Null, 0), ids \ {i}, by)

FlushPendingErrors(w, by) == [RejectAll(w, w.pending, by) EXCEPT !.pending = {}]

\* scheduleReconnect with the doubling of backoffMs left out.
ScheduleReconnectSameDelay(w, t) ==
    IF w.closed THEN w
    ELSE EmitHealth([w EXCEPT !.reconnectAttempts = @ + 1,
                              !.reconnectTimer = t,
                              !.timers = @ \cup {t},
                              !.timerDelay[t] = w.backoffMs,
                              !.timerBefore[t] = w.grace,
                              !.sinceHandshake = @ + 1, !.sinceReset = @ + 1])

\* scheduleReconnect; t names the timer setTimeout returns.
ScheduleReconnect(w, t) ==
    IF w.closed THEN w
    ELSE EmitHealth([w EXCEPT !.reconnectAttempts = @ + 1,
                              !.backoffMs = Min(@ * 2, MaxBackoffMs),
                              !.reconnectTimer = t,
                              !.timers = @ \cup {t},
                              !.timerDelay[t] = w.backoffMs,
                              !.timerBefore[t] = w.grace,
                              !.sinceHandshake = @ + 1, !.sinceReset = @ + 1])

\* clearTimeout(this.reconnectTimer); this.reconnectTimer = null
ClearReconnectTimer(w) ==
    IF w.reconnectTimer # Null
    THEN [w EXCEPT !.timers = @ \ {w.reconnectTimer},
                   !.timerDelay[w.reconnectTimer] = 0,
                   !.timerBefore[w.reconnectTimer] = {},
                   !.reconnectTimer = Null]
    ELSE w

\* stop()
Stop(w) ==
    LET w1 == StopTickMonitor([w EXCEPT !.closed = TRUE])
        w2 == WsClose(ClearReconnectTimer(w1), NoCode)
        w3 == FlushPendingErrors([w2 EXCEPT !.ws = Null], "stopped")
    IN SetState(w3, "disconnected")

\* updateCredentials with the this.ws?.close() call left out.
UpdateCredentialsKeepsTransport(w, u, t) ==
    LET changed == w.url # u \/ w.token # t
        w1 == [w EXCEPT !.url = u, !.token = t]
    IN IF changed /\ w.state # "disconnected"
       THEN [w1 EXCEPT !.closed = FALSE]
       ELSE w1

\* updateCredentials(url, token)
UpdateCredentials(w, u, t) ==
    LET changed == w.url # u \/ w.token # t
        w1 == [w EXCEPT !.url = u, !.token = t]
    IN IF changed /\ w.state # "disconnected"
       THEN WsClose([w1 EXCEPT !.closed = FALSE], NoCode)
       ELSE w1

\* forceReconnect() with the clearTimeout left out.
ForceReconnectKeepsTimer(w) ==
    LET w2 == [w EXCEPT !.backoffMs = BaseBackoffMs, !.reconnectAttempts = 0,
                        !.closed = FALSE, !.sinceReset = 0]
    IN Start(WsClose(w2, NoCode))

\* forceReconnect() with the reset of reconnectAttempts left out.
ForceReconnectKeepsAttempts(w) ==
    LET w1 == ClearReconnectTimer(w)
        w2 == [w1 EXCEPT !.backoffMs = BaseBackoffMs,
                         !.closed = FALSE, !.sinceReset = 0]
    IN Start(WsClose(w2, NoCode))

\* forceReconnect()
ForceReconnect(w) ==
    LET w1 == ClearReconnectTimer(w)
        w2 == [w1 EXCEPT !.backoffMs = BaseBackoffMs, !.reconnectAttempts = 0,
                         !.closed = FALSE, !.sinceReset = 0]
    IN Start(WsClose(w2, NoCode))

\* request(): the guard that throws 'not connected'.
IsOpen(w) == w.ws # Null /\ w.rs[w.ws] = "OPEN"

\* uuid(): a correlation id no earlier call had.
FreeIds(w) == {i \in CallIds : w.calls[i].status = "unused"}
NextId(w) == CHOOSE i \in FreeIds(w) : \A x \in FreeIds(w) : i <= x

\* request() that keeps a call made while not connected for later.
RequestQueued(w, method, tok) ==
    IF Cardinality(CallIds \ FreeIds(w)) >= w.maxIds THEN [w EXCEPT !.ovf = TRUE]
    ELSE [w EXCEPT !.pending = @ \cup {NextId(w)},
                   !.calls[NextId(w)] =
                       [method |-> method, sock |-> w.ws, token |-> tok,
                        status |-> "pending", by |-> "none", via |-> Null,
                        settles |-> 0, error |-> ""]]

\* request(method, params): throws when the socket is absent or not open (the
\* world is unchanged); otherwise registers the call and sends its frame on
\* this.ws.  tok is the auth token among the params (Null for other methods).
Request(w, method, tok) ==
    IF ~IsOpen(w) THEN w
    ELSE IF Cardinality(CallIds \ FreeIds(w)) >= w.maxIds THEN [w EXCEPT !.ovf = TRUE]
    ELSE [w EXCEPT !.pending = @ \cup {NextId(w)},
                   !.calls[NextId(w)] =
                       [method |-> method, sock |-> w.ws, token |-> tok,
                        status |-> "pending", by |-> "none", via |-> Null,
                        settles |-> 0, error |-> ""]]

\* sendConnect(): the one-shot guard, then request('connect', {auth: token});
\* a request that throws rejects the promise, so the .catch becomes runnable.
SendConnect(w) ==
    IF w.connectSent THEN w
    ELSE LET w1 == [w EXCEPT !.connectSent = TRUE]
         IN IF IsOpen(w1)
            THEN Request(w1, "connect", w1.token)
            ELSE [w1 EXCEPT !.micro = Append(@, [kind |-> "catch", tick |-> 0])]

\* sendConnect's .then: tick is policy.tickIntervalMs of the hello (0: absent).
ConnectThen(w, tick) ==
    LET w1 == [w EXCEPT !.backoffMs = BaseBackoffMs, !.reconnectAttempts = 0,
                        !.sinceHandshake = 0, !.sinceReset = 0]
        w2 == IF tick # 0
              THEN StartTickMonitor([w1 EXCEPT !.tickIntervalMs = tick,
                                               !.lastTickAt = w.now])
              ELSE w1
    IN SetState(w2, "connected")

\* sendConnect's .catch
ConnectCatch(w) == WsClose(SetState(w, "error"), ConnectFailedCode)

\* The microtask checkpoint: every runnable promise callback, in order.
RECURSIVE RunMicrotasks(_)
RunMicrotasks(w) ==
    IF w.micro = <<>> THEN w
    ELSE LET m == Head(w.micro)
             w1 == [w EXCEPT !.micro = Tail(@)]
         IN RunMicrotasks(IF m.kind = "then" THEN ConnectThen(w1, m.tick)
                          ELSE ConnectCatch(w1))

\* The frames a gateway may send.  A response's id 0 is an id of no call.
EventNames == {"connect.challenge", "tick", "chat"}
\* throws: the payload is one an observer throws on (the application's
\* observer destructures evt.payload).
\* msg: res.error?.message ("": absent).
EventFrames ==
    [type : {"event"}, event : EventNames, id : {Null}, ok : {FALSE},
     accepted : {FALSE}, tick : {0}, throws : BOOLEAN, msg : {""}]
ResponseFrames ==
    [type : {"res"}, event : {""}, id : 0..MaxCalls, ok : BOOLEAN,
     accepted : BOOLEAN, tick : TickIntervals, throws : {FALSE}, msg : {""}]
\* The error responses that carry a message.
MessageFrames ==
    [type : {"res"}, event : {""}, id : 0..MaxCalls, ok : {FALSE},
     accepted : BOOLEAN, tick : {0}, throws : {FALSE}, msg : {"denied"}]
Frames == EventFrames \cup ResponseFrames

\* The 'res' branch with this.pending.delete(res.id) left out.
HandleResponseKeepsEntry(w, f) ==
    IF f.id \notin w.pending THEN w
    ELSE IF f.accepted THEN w
    ELSE SettleCall(w, f.id, f.ok, "res", f.id, f.tick)

\* The 'res' branch with the test for an 'accepted' payload left out.
HandleResponseSettlesAccepted(w, f) ==
    IF f.id \notin w.pending THEN w
    ELSE SettleCall([w EXCEPT !.pending = @ \ {f.id}], f.id, f.ok, "res", f.id, f.tick)

\* res.error?.message ?? 'unknown error'
ErrorMessage(f) == IF f.msg = "" THEN "unknown error" ELSE f.msg

\* The 'res' branch rejecting every pending call on an error response.
HandleResponseRejectsAll(w, f) ==
    IF f.id \notin w.pending THEN w
    ELSE IF f.accepted THEN w
    ELSE IF f.ok
         THEN SettleCall([w EXCEPT !.pending = @ \ {f.id}], f.id, TRUE, "res", f.id, f.tick)
    ELSE [FlushPendingErrors(w, "res") EXCEPT !.calls[f.id].error = ErrorMessage(f)]

\* handleMessage, the 'res' branch.
HandleResponse(w, f) ==
    IF f.id \notin w.pending THEN w
    ELSE IF f.accepted THEN w
    ELSE LET w1 == SettleCall([w EXCEPT !.pending = @ \ {f.id}], f.id, f.ok, "res",
                              f.id, f.tick)
         IN IF f.ok THEN w1 ELSE [w1 EXCEPT !.calls[f.id].error = ErrorMessage(f)]

\* onEvent(handler) by observer h
OnEvent(w, h) ==
    [w EXCEPT !.eventHandlers = Append(@, h), !.registered = @ \cup {h}]

\* The function onEvent returned to observer h: filter(x => x !== handler).
Unsubscribe(w, h) ==
    [w EXCEPT !.eventHandlers = SelectSeq(@, LAMBDA x : x # h)]

\* hs.forEach(h => h(evt)) for event frame number n: every observer of hs is
\* called in order; an observer that throws ends the loop (handleMessage's
\* catch swallows the exception).
RECURSIVE ForEach(_, _, _, _)
ForEach(w, hs, n, throws) ==
    IF hs = <<>> THEN w
    ELSE LET w1 == [w EXCEPT !.received[Head(hs)] = Append(@, n)]
         IN IF throws THEN w1 ELSE ForEach(w1, Tail(hs), n, throws)

\* this.eventHandlers.forEach(h => h(evt)); with no observer nothing happens.
Dispatch(w, f) ==
    IF w.eventHandlers = <<>> THEN w
    ELSE IF w.arrived >= MaxEvents THEN [w EXCEPT !.ovf = TRUE]
    ELSE ForEach([w EXCEPT !.arrived = @ + 1], w.eventHandlers, w.arrived + 1, f.throws)

\* handleMessage, the 'event' branch.
HandleEvent(w, f) ==
    IF f.event = "connect.challenge" THEN SendConnect(w)
    ELSE IF f.event = "tick"
         THEN Dispatch(EmitHealth([w EXCEPT !.lastTickAt = w.now]), f)
    ELSE Dispatch(w, f)

\* handleMessage
HandleMessage(w, f) ==
    IF f.type = "event" THEN HandleEvent(w, f)
    ELSE IF f.type = "res" THEN HandleResponse(w, f)
    ELSE w

\* ws.onopen: arms the grace timer of socket s.
OnOpen(w, s) == [w EXCEPT !.grace = @ \cup {s}]

\* The grace timer's callback.
OnGraceTimer(w) == IF ~w.connectSent THEN SendConnect(w) ELSE w

\* ws.onerror
OnError(w) == SetState(w, "error")

\* ws.onclose flushing the pending calls only when no error event came first.
OnCloseFlushUnlessError(w, s) ==
    LET w1 == StopTickMonitor([w EXCEPT !.ws = Null])
        w2 == IF w1.state # "error" THEN FlushPendingErrors(w1, "closed") ELSE w1
    IN IF ~w2.closed
       THEN ScheduleReconnect(IF w2.state # "error" THEN SetState(w2, "disconnected")
                              ELSE w2, s)
       ELSE w2

\* ws.onclose with the flushPendingErrors call left out.
OnCloseNoFlush(w, s) ==
    LET w2 == StopTickMonitor([w EXCEPT !.ws = Null])
    IN IF ~w2.closed
       THEN ScheduleReconnect(IF w2.state # "error" THEN SetState(w2, "disconnected")
                              ELSE w2, s)
       ELSE w2

\* ws.onclose of socket s (the handler never looks at which socket closed;
\* s only names the timer that scheduleReconnect arms).
OnClose(w, s) ==
    LET w1 == StopTickMonitor([w EXCEPT !.ws = Null])
        w2 == FlushPendingErrors(w1, "closed")
    IN IF ~w2.closed
       THEN ScheduleReconnect(IF w2.state # "error" THEN SetState(w2, "disconnected")
                              ELSE w2, s)
       ELSE w2

\* The tick monitor's interval callback.
OnTickCheck(w) ==
    IF IsConnectionStale(w) THEN WsClose(EmitHealth(w), StaleCode) ELSE EmitHealth(w)

\* ------------------------------------------------------------- the steps
\* Every step takes the bounds c of the run.

\* The application calls start(); it does so from the disconnected state
\* (spec 4.1: disconnected --start()--> connecting).
AppStart(c) ==
    /\ state = "disconnected"
    /\ ApiCall(c, Start(World(c)), "start")

\* The application calls stop(), in any state.
AppStop(c) ==
    /\ state \in {"disconnected", "connecting", "connected", "error"}
    /\ ApiCall(c, Stop(World(c)), "stop")

\* The application calls forceReconnect(), in any state.
AppForceReconnect(c) ==
    /\ state \in {"disconnected", "connecting", "connected", "error"}
    /\ ApiCall(c, ForceReconnect(World(c)), "forceReconnect")

\* The application calls updateCredentials(url, token); lastCall keeps the
\* last of start(), stop() and forceReconnect().
AppUpdateCredentials(c) ==
    /\ state \in {"disconnected", "connecting", "connected", "error"}
    /\ \E u \in Urls, t \in Tokens :
          ApiCall(c, UpdateCredentials(World(c), u, t), lastCall)

\* The application calls request(); lastRequest records whether it threw
\* 'not connected'.
AppRequest(c) ==
    /\ Commit(Request(World(c), "app", Null))
    /\ lastRequest' = IF IsOpen(World(c)) THEN "sent" ELSE "rejected"
    /\ UNCHANGED <<apiCalls, lastCall>>

\* The application registers observer h, a function not registered before.
AppOnEvent(c, h) ==
    /\ h \notin registered
    /\ Task(OnEvent(World(c), h))

\* The application calls the function onEvent returned to observer h.
AppUnsubscribe(c, h) ==
    /\ h \in registered
    /\ Task(Unsubscribe(World(c), h))

\* The promise callbacks an application call made runnable.
Microtasks(c) ==
    /\ micro # <<>>
    /\ Task(RunMicrotasks(World(c)))

\* The open event of socket s.
SocketOpen(c, s) ==
    /\ micro = <<>>
    /\ rs[s] = "CONNECTING"
    /\ Task(RunMicrotasks(OnOpen([World(c) EXCEPT !.rs[s] = "OPEN",
                                                  !.opened = @ \cup {s}], s)))

\* The grace timer armed by the open event of socket s fires.
GraceTimer(c, s) ==
    /\ micro = <<>>
    /\ s \in grace
    /\ Task(RunMicrotasks(OnGraceTimer(
                [World(c) EXCEPT !.grace = @ \ {s},
                                 !.timerBefore = [t \in Sockets |-> @[t] \ {s}]])))

\* A message event on socket s: delivered only while the socket is OPEN.  The
\* gateway answers a request on the connection it arrived on.
SocketMessage(c, s, f) ==
    /\ micro = <<>>
    /\ rs[s] = "OPEN"
    /\ (f.type = "res" /\ f.id \in CallIds /\ calls[f.id].sock # Null) =>
            calls[f.id].sock = s
    /\ Task(RunMicrotasks(HandleMessage(World(c), f)))

\* Socket s is closed (by the peer, by the network, or at the end of the
\* close the client began).  One task sets readyState CLOSED, fires error when
\* the connection failed, then fires close.  A connection that never opened
\* always failed.
SocketClosed(c, s, failed) ==
    /\ micro = <<>>
    /\ rs[s] \in {"CONNECTING", "OPEN", "CLOSING"}
    /\ s \notin opened => failed
    /\ LET w1 == [World(c) EXCEPT !.rs[s] = "CLOSED", !.opened = @ \ {s},
                                  !.code[s] = NoCode]
           w2 == IF failed THEN RunMicrotasks(OnError(w1)) ELSE w1
       IN Task(RunMicrotasks(OnClose(w2, s)))

\* Backoff timer t fires: () => this.start().  Its delay is at least 1000 ms,
\* so every 500 ms grace timer armed before it has fired by then.
BackoffTimer(c, t) ==
    /\ micro = <<>>
    /\ t \in timers
    /\ timerBefore[t] \cap grace = {}
    /\ Task(RunMicrotasks(Start([World(c) EXCEPT !.timers = @ \ {t},
                                                 !.timerDelay[t] = 0,
                                                 !.timerBefore[t] = {}])))

\* The tick monitor's interval fires.
TickCheck(c) ==
    /\ micro = <<>>
    /\ tickCheckTimer
    /\ Task(RunMicrotasks(OnTickCheck(World(c))))

\* Time passes.
ClockTick(c) ==
    /\ now < MaxNow
    /\ Task([World(c) EXCEPT !.now = @ + 1])

\* The connection's life: the application makes no request() call, so the
\* calls are the handshakes, at most LifecycleCalls of them.
LifecycleRun == [sockets |-> LifecycleSockets, ids |-> LifecycleCalls, api |-> MaxApiCalls]

Next ==
    \/ AppStart(LifecycleRun)
    \/ AppStop(LifecycleRun)
    \/ AppForceReconnect(LifecycleRun)
    \/ AppUpdateCredentials(LifecycleRun)
    \/ Microtasks(LifecycleRun)
    \/ \E s \in Sockets : SocketOpen(LifecycleRun, s)
    \/ \E s \in Sockets : GraceTimer(LifecycleRun, s)
    \/ \E s \in Sockets, f \in Frames : SocketMessage(LifecycleRun, s, f)
    \/ \E s \in Sockets, failed \in BOOLEAN : SocketClosed(LifecycleRun, s, failed)
    \/ \E t \in Sockets : BackoffTimer(LifecycleRun, t)
    \/ TickCheck(LifecycleRun)

Spec == Init /\ [][Next]_vars

\* The calls: the application's request() calls too, on at most CallsSockets
\* sockets, with at most CallsApiCalls lifecycle calls.
CallsRun == [sockets |-> CallsSockets, ids |-> MaxCalls, api |-> CallsApiCalls]

NextCalls ==
    \/ AppStart(CallsRun)
    \/ AppStop(CallsRun)
    \/ AppForceReconnect(CallsRun)
    \/ AppUpdateCredentials(CallsRun)
    \/ AppRequest(CallsRun)
    \/ Microtasks(CallsRun)
    \/ \E s \in Sockets : SocketOpen(CallsRun, s)
    \/ \E s \in Sockets : GraceTimer(CallsRun, s)
    \/ \E s \in Sockets, f \in Frames : SocketMessage(CallsRun, s, f)
    \/ \E s \in Sockets, failed \in BOOLEAN : SocketClosed(CallsRun, s, failed)
    \/ \E t \in Sockets : BackoffTimer(CallsRun, t)
    \/ TickCheck(CallsRun)

SpecCalls == Init /\ [][NextCalls]_vars

\* The heartbeat: the clock advances too, with the sockets and lifecycle calls
\* of a run of SpecCalls and the handshakes as the only calls.
HealthRun == [sockets |-> CallsSockets, ids |-> LifecycleCalls, api |-> CallsApiCalls]

NextHealth ==
    \/ AppStart(HealthRun)
    \/ AppStop(HealthRun)
    \/ AppForceReconnect(HealthRun)
    \/ AppUpdateCredentials(HealthRun)
    \/ Microtasks(HealthRun)
    \/ \E s \in Sockets : SocketOpen(HealthRun, s)
    \/ \E s \in Sockets : GraceTimer(HealthRun, s)
    \/ \E s \in Sockets, f \in Frames : SocketMessage(HealthRun, s, f)
    \/ \E s \in Sockets, failed \in BOOLEAN : SocketClosed(HealthRun, s, failed)
    \/ \E t \in Sockets : BackoffTimer(HealthRun, t)
    \/ TickCheck(HealthRun)
    \/ ClockTick(HealthRun)

SpecHealth == Init /\ [][NextHealth]_vars

\* The backoff: long runs of failed attempts, with few handshakes and few
\* lifecycle calls.
BackoffRun == [sockets |-> MaxSockets, ids |-> BackoffCalls, api |-> BackoffApiCalls]

NextBackoff ==
    \/ AppStart(BackoffRun)
    \/ AppStop(BackoffRun)
    \/ AppForceReconnect(BackoffRun)
    \/ AppUpdateCredentials(BackoffRun)
    \/ Microtasks(BackoffRun)
    \/ \E s \in Sockets : SocketOpen(BackoffRun, s)
    \/ \E s \in Sockets : GraceTimer(BackoffRun, s)
    \/ \E s \in Sockets, f \in Frames : SocketMessage(BackoffRun, s, f)
    \/ \E s \in Sockets, failed \in BOOLEAN : SocketClosed(BackoffRun, s, failed)
    \/ \E t \in Sockets : BackoffTimer(BackoffRun, t)
    \/ TickCheck(BackoffRun)

SpecBackoff == Init /\ [][NextBackoff]_vars

\* The error responses: the gateway's error responses carry a message or
\* none, and the application makes request() calls.
ErrorsRun == [sockets |-> ErrorsSockets, ids |-> ErrorsCalls, api |-> ErrorsApiCalls]

NextErrors ==
    \/ AppStart(ErrorsRun)
    \/ AppStop(ErrorsRun)
    \/ AppForceReconnect(ErrorsRun)
    \/ AppUpdateCredentials(ErrorsRun)
    \/ AppRequest(ErrorsRun)
    \/ Microtasks(ErrorsRun)
    \/ \E s \in Sockets : SocketOpen(ErrorsRun, s)
    \/ \E s \in Sockets : GraceTimer(ErrorsRun, s)
    \/ \E s \in Sockets, f \in Frames \cup MessageFrames : SocketMessage(ErrorsRun, s, f)
    \/ \E s \in Sockets, failed \in BOOLEAN : SocketClosed(ErrorsRun, s, failed)
    \/ \E t \in Sockets : BackoffTimer(ErrorsRun, t)
    \/ TickCheck(ErrorsRun)

SpecErrors == Init /\ [][NextErrors]_vars

\* The events: observers come and go while event frames arrive on one
\* connection.
EventsRun == [sockets |-> EventsSockets, ids |-> EventsCalls, api |-> EventsApiCalls]

NextEvents ==
    \/ AppStart(EventsRun)
    \/ AppStop(EventsRun)
    \/ AppForceReconnect(EventsRun)
    \/ AppUpdateCredentials(EventsRun)
    \/ \E h \in Observers : AppOnEvent(EventsRun, h)
    \/ \E h \in Observers : AppUnsubscribe(EventsRun, h)
    \/ Microtasks(EventsRun)
    \/ \E s \in Sockets : SocketOpen(EventsRun, s)
    \/ \E s \in Sockets : GraceTimer(EventsRun, s)
    \/ \E s \in Sockets, f \in Frames : SocketMessage(EventsRun, s, f)
    \/ \E s \in Sockets, failed \in BOOLEAN : SocketClosed(EventsRun, s, failed)
    \/ \E t \in Sockets : BackoffTimer(EventsRun, t)
    \/ TickCheck(EventsRun)

SpecEvents == Init /\ [][NextEvents]_vars

\* ------------------------------------------------------------ the claims

SocketsUsed == Cardinality({s \in Sockets : rs[s] # "NONE"})
LiveSockets == {s \in Sockets : rs[s] \in {"CONNECTING", "OPEN"}}
ConnectsOn(s) ==
    Cardinality({i \in CallIds : calls[i].method = "connect" /\ calls[i].sock = s})

\* C1: each call's promise is settled at most once, and only by a terminal
\* response carrying the call's own correlation id or by a local rejection
\* (the transport closed, the client stopped); an unsettled call is exactly a
\* call in the pending table; and a response whose id matches no pending call,
\* delivered in any reachable state, leaves the whole state as it was.
C1_SettledOnceByOwnResponse ==
    /\ \A i \in CallIds :
        /\ calls[i].settles <= 1
        /\ (calls[i].status = "pending") <=> (i \in pending)
        /\ calls[i].status = "pending" => calls[i].settles = 0
        /\ calls[i].status = "resolved" =>
               calls[i].settles = 1 /\ calls[i].by = "res" /\ calls[i].via = i
        /\ calls[i].status = "rejected" =>
               /\ calls[i].settles = 1
               /\ \/ calls[i].by = "res" /\ calls[i].via = i
                  \/ calls[i].by \in {"closed", "stopped"}
    /\ \A s \in Sockets, f \in ResponseFrames :
        (rs[s] = "OPEN" /\ micro = <<>> /\ f.id \notin pending) =>
            RunMicrotasks(HandleMessage(World(CallsRun), f)) = World(CallsRun)

\* C1's case: a later call was resolved by its own response while an earlier
\* call of the application is still pending and a third was rejected.
C1_Witness ==
    \E i, j, k \in CallIds :
        /\ j < i
        /\ calls[i].method = "app" /\ calls[i].status = "resolved"
        /\ calls[j].method = "app" /\ calls[j].status = "pending"
        /\ calls[k].method = "app" /\ calls[k].status = "rejected"
        /\ calls[k].by = "res"

\* C2: the close event of a transport rejects every call that was pending,
\* with the local 'connection closed' error, and leaves the pending table
\* empty; so no call pending at the close is left unsettled.
C2_CloseRejectsAllPending ==
    [][(\E s \in Sockets : rs[s] # "CLOSED" /\ rs'[s] = "CLOSED") =>
          /\ pending' = {}
          /\ \A i \in pending :
                /\ calls'[i].status = "rejected"
                /\ calls'[i].by = "closed"
                /\ calls'[i].settles = 1]_vars

\* C2's case: a transport closed while two calls sent on it were pending.
C2_Witness ==
    \E s \in Sockets, i, j \in CallIds :
        /\ i # j
        /\ rs[s] = "CLOSED"
        /\ pending = {}
        /\ calls[i].sock = s /\ calls[i].by = "closed" /\ calls[i].status = "rejected"
        /\ calls[j].sock = s /\ calls[j].by = "closed" /\ calls[j].status = "rejected"

\* C3: a response with status 'accepted' for a pending call, delivered in any
\* reachable state, leaves the whole state as it was (the call unsettled and in
\* the pending table), and the terminal response with the same id delivered
\* after it settles the call.
C3_AcceptedDoesNotSettle ==
    \A s \in Sockets, f \in ResponseFrames :
        (rs[s] = "OPEN" /\ micro = <<>> /\ f.id \in pending /\ f.accepted) =>
            LET W == World(CallsRun)
                w1 == RunMicrotasks(HandleMessage(W, f))
                w2 == HandleMessage(w1, [f EXCEPT !.accepted = FALSE])
            IN /\ w1 = W
               /\ w1.calls[f.id].status = "pending" /\ w1.calls[f.id].settles = 0
               /\ f.id \notin w2.pending
               /\ w2.calls[f.id].status = IF f.ok THEN "resolved" ELSE "rejected"
               /\ w2.calls[f.id].via = f.id

\* C3's case: a call of the application is pending on the open transport the
\* client holds (an 'accepted' response for it leaves this very state).
C3_Witness ==
    \E i \in pending :
        /\ calls[i].method = "app" /\ calls[i].sock = ws
        /\ ws # Null /\ rs[ws] = "OPEN" /\ micro = <<>>
        /\ state = "connected"

\* C4: request() called while the transport is absent or not open changes
\* nothing of the client: no call is registered (so no frame is sent and the
\* pending table gets no entry), nothing is kept for later; and a call is only
\* ever registered by a step that began with the transport open.
C4_NotConnectedRejected ==
    [][/\ ~IsOpen(World(CallsRun)) =>
             Request(World(CallsRun), "app", Null) = World(CallsRun)
       /\ (~IsOpen(World(CallsRun)) /\ lastRequest' # lastRequest) =>
             /\ lastRequest' = "rejected"
             /\ UNCHANGED <<ws, pending, calls, micro, rs, state, connectSent,
                            timers, reconnectTimer>>
       /\ (\E i \in CallIds : calls[i].status = "unused" /\ calls'[i].status # "unused")
             => IsOpen(World(CallsRun))]_vars

\* C4's case: a request() was rejected while there was no open transport, a
\* later transport has opened since, and no call of the application exists.
C4_Witness ==
    /\ lastRequest = "rejected"
    /\ IsOpen(World(CallsRun))
    /\ SocketsUsed = 2
    /\ \A i \in CallIds : calls[i].method # "app"

\* C5: on every transport at most one handshake request is sent, and on a
\* transport that is open and whose grace timer has fired exactly one was sent.
C5_ExactlyOneHandshake ==
    \A s \in Sockets :
        /\ ConnectsOn(s) <= 1
        /\ (rs[s] = "OPEN" /\ s \notin grace) => ConnectsOn(s) = 1

\* C6: while stop() is the last of start(), stop() and forceReconnect() the
\* application called, the lifecycle state is disconnected.
C6_StaysDisconnected == lastCall = "stop" => state = "disconnected"

\* C7: as long as stop() is the last of start(), stop() and forceReconnect()
\* the application called, no step opens a transport or schedules a reconnect.
C7_NoReconnectAfterStop ==
    [][(lastCall = "stop" /\ lastCall' = "stop") =>
          (timers' \subseteq timers /\ SocketsUsed' = SocketsUsed)]_vars

\* C8: a start() call made after stop() opens a new transport and moves the
\* lifecycle state to connecting.
C8_StartAfterStop ==
    [][(lastCall = "stop" /\ lastCall' = "start") =>
          (state' = "connecting" /\ SocketsUsed' = SocketsUsed + 1
           /\ ws' # Null /\ rs[ws'] = "NONE" /\ rs'[ws'] = "CONNECTING")]_vars

C10_OneLiveTransport == Cardinality(LiveSockets) <= 1

\* The delay the k-th reconnect in a row is armed with (k from 0).
BackoffDelay(k) == Min(BaseBackoffMs * 2^k, MaxBackoffMs)

\* C11: every reconnect is scheduled with the delay 1000 * 2^k ms clamped to
\* 30000 ms, k being the number of reconnects scheduled since the last
\* successful handshake (so the first one after a handshake waits 1000 ms).
C11_BackoffSequence ==
    [][\A t \in Sockets :
          (t \in timers' /\ t \notin timers) =>
              timerDelay'[t] = BackoffDelay(sinceHandshake)]_vars

\* C11, amended: the same with k the number of reconnects scheduled since the
\* last successful handshake or forceReconnect() call, whichever came last.
C11_BackoffSequenceSinceReset ==
    [][\A t \in Sockets :
          (t \in timers' /\ t \notin timers) =>
              /\ timerDelay'[t] = BackoffDelay(sinceReset)
              /\ sinceReset' = sinceReset + 1]_vars

\* C11's case: the seventh reconnect in a row is pending, armed with the
\* ceiling like the sixth.
C11_Witness ==
    /\ sinceReset = 7
    /\ \E t \in timers : timerDelay[t] = MaxBackoffMs
    /\ backoffMs = MaxBackoffMs

\* C12: when the client is connected, not stopped, and the transport it holds
\* closes without the client having closed it, the state becomes disconnected
\* and exactly one reconnect is scheduled, with the delay 1000 ms.
C12_UnexpectedClose ==
    [][(/\ state = "connected" /\ ~closed /\ lastCall # "stop"
        /\ ws # Null /\ rs[ws] = "OPEN" /\ rs'[ws] = "CLOSED") =>
          /\ state' = "disconnected"
          /\ \E t \in Sockets :
                /\ t \notin timers
                /\ timers' = timers \cup {t}
                /\ timerDelay'[t] = BaseBackoffMs]_vars

States == {"disconnected", "connecting", "connected", "error"}

\* The health snapshot of a client in state s, with last tick at l and tick
\* interval T, taken at time n.
HealthAt(s, l, T, n) ==
    Health([World(HealthRun) EXCEPT !.state = s, !.lastTickAt = l,
                                    !.tickIntervalMs = T, !.now = n])

\* C13: a health snapshot (the getter's in any reachable state, the one last
\* broadcast, and the one computed from any values of the fields) has
\* isStale false when its state is not connected and when the tick interval
\* or the time of the last tick is not known.
C13_NotStaleUnlessConnected ==
    /\ \A h \in {health, Health(World(HealthRun))} :
          (h.state # "connected" \/ h.lastTickAt = Null \/ h.tickIntervalMs = Null)
              => ~h.isStale
    /\ \A s \in States, l \in {Null, 1}, T \in TickIntervals, n \in {1, MaxNow} :
          (s # "connected" \/ l = Null \/ T = Null) => ~HealthAt(s, l, T, n).isStale

\* C13's case: the client is no longer connected and the last tick is more
\* than 2.5 intervals old; the snapshot broadcast last reports no staleness.
C13_Witness ==
    /\ state # "connected" /\ health.state = state
    /\ lastTickAt # Null /\ tickIntervalMs # Null
    /\ health.lastTickAt = lastTickAt /\ health.tickIntervalMs = tickIntervalMs
    /\ 2 * (now - lastTickAt) > 5 * tickIntervalMs
    /\ ~health.isStale

\* C14: while connected with tick interval T and a known last tick, isStale is
\* false when less than 2T have passed since the last tick and true when more
\* than 2.5T have: in every reachable state, for every delay up to MaxNow,
\* and for T = 30000 ms after 31 s and after 76 s.
C14_StaleThresholds ==
    /\ (state = "connected" /\ lastTickAt # Null /\ tickIntervalMs # Null) =>
          /\ now - lastTickAt < 2 * tickIntervalMs => ~Health(World(HealthRun)).isStale
          /\ 2 * (now - lastTickAt) > 5 * tickIntervalMs => Health(World(HealthRun)).isStale
    /\ \A T \in TickIntervals \ {Null}, e \in 0..MaxNow :
          /\ e < 2 * T => ~HealthAt("connected", 1, T, 1 + e).isStale
          /\ 2 * e > 5 * T => HealthAt("connected", 1, T, 1 + e).isStale
    /\ ~HealthAt("connected", 1, 30000, 1 + 31000).isStale
    /\ HealthAt("connected", 1, 30000, 1 + 76000).isStale

\* C14's case: the client is connected, the last tick is more than 2.5
\* intervals old, and the snapshot broadcast before that was not stale.
C14_Witness ==
    /\ state = "connected" /\ health.state = "connected"
    /\ lastTickAt # Null /\ tickIntervalMs # Null
    /\ 2 * (now - lastTickAt) > 5 * tickIntervalMs
    /\ Health(World(HealthRun)).isStale
    /\ ~health.isStale

\* health.isStale as the getter reports it in the current state.
IsStaleNow == Health(World(HealthRun)).isStale

Registered == {eventHandlers[i] : i \in DOMAIN eventHandlers}

\* C16: an event frame that reaches the observers is delivered, once and in
\* arrival order, to every observer registered when it arrives and to no
\* other, and nothing else is ever delivered to an observer.
C16_EveryObserverReceives ==
    [][/\ arrived' \in {arrived, arrived + 1}
       /\ arrived' = arrived => received' = received
       /\ arrived' = arrived + 1 =>
            \A h \in Observers :
                received'[h] = IF h \in Registered
                               THEN Append(received[h], arrived')
                               ELSE received[h]]_vars

\* No transport exists: every socket created so far has fired its close event.
NoTransport == \A s \in Sockets : rs[s] \notin {"CONNECTING", "OPEN", "CLOSING"}

\* C17: when the last of start(), stop() and forceReconnect() the application
\* called is not stop(), a backoff timer is pending whenever no transport
\* exists.
C17_ReconnectPending ==
    (lastCall \in {"start", "forceReconnect"} /\ NoTransport) => timers # {}

\* C18: when the tick monitor's check runs on a connected client whose last
\* tick is more than 2 x tickIntervalMs old, the snapshot is stale and the
\* check closes the transport with the stale-connection code.
C18_ClosesAfterTwoIntervals ==
    (/\ tickCheckTimer /\ state = "connected"
     /\ ws # Null /\ rs[ws] = "OPEN"
     /\ lastTickAt # Null /\ tickIntervalMs # Null
     /\ now - lastTickAt > 2 * tickIntervalMs) =>
        LET w == OnTickCheck(World(HealthRun))
        IN /\ IsStaleNow
           /\ w.rs[ws] = "CLOSING"
           /\ w.code[ws] = StaleCode

\* C19: a step into the state connected broadcasts a health snapshot with
\* isStale false, and the snapshot the getter returns right after it has
\* isStale false.
C19_FreshWhenConnected ==
    [][(state # "connected" /\ state' = "connected") =>
          (~health'.isStale /\ ~IsStaleNow')]_vars

\* The error response to call i.
RejectFrame(i) ==
    [type |-> "res", event |-> "", id |-> i, ok |-> FALSE, accepted |-> FALSE,
     tick |-> 0, throws |-> FALSE, msg |-> ""]

\* C20: when the gateway rejects a pending handshake on the open socket it was
\* sent on, and the client is not stopped, the state becomes error and that
\* socket is closed with code 4008 without a reconnect being scheduled yet;
\* the socket's close event then leaves the state error and schedules
\* exactly one reconnect.
C20_HandshakeRejected ==
    \A i \in CallIds :
        LET s  == calls[i].sock
            w1 == RunMicrotasks(HandleMessage(World(LifecycleRun), RejectFrame(i)))
            w2 == RunMicrotasks(OnClose([w1 EXCEPT !.rs[s] = "CLOSED",
                                                   !.opened = @ \ {s},
                                                   !.code[s] = NoCode], s))
        IN (/\ micro = <<>> /\ ~closed /\ lastCall # "stop"
            /\ i \in pending /\ calls[i].method = "connect"
            /\ s # Null /\ rs[s] = "OPEN") =>
              /\ w1.state = "error"
              /\ w1.rs[s] = "CLOSING" /\ w1.code[s] = ConnectFailedCode
              /\ w1.timers = timers
              /\ w2.state = "error"
              /\ Cardinality(w2.timers \ timers) = 1

\* C21: the close event of a transport the health check closed as stale, on
\* a client that is not stopped, leaves no call pending, sets the state to
\* disconnected and schedules one reconnect; the check itself sends no
\* request.
C21_StaleClose ==
    /\ [](LET w == OnTickCheck(World(HealthRun))
          IN (tickCheckTimer /\ micro = <<>> /\ IsStaleNow
              /\ ws # Null /\ rs[ws] = "OPEN") =>
                /\ w.rs[ws] = "CLOSING" /\ w.code[ws] = StaleCode
                /\ w.calls = calls /\ w.pending = pending)
    /\ [][\A s \in Sockets :
            (~closed /\ rs[s] = "CLOSING" /\ code[s] = StaleCode
             /\ rs'[s] = "CLOSED") =>
                /\ pending' = {}
                /\ state' = "disconnected"
                /\ Cardinality(timers' \ timers) = 1]_vars

\* The task in which socket s fails: readyState CLOSED, the error event, then
\* the close event.
ErrorThenClose(s) ==
    LET w1 == [World(CallsRun) EXCEPT !.rs[s] = "CLOSED", !.opened = @ \ {s},
                                      !.code[s] = NoCode]
    IN RunMicrotasks(OnClose(RunMicrotasks(OnError(w1)), s))

\* C22: when a transport's error event fires, every call pending at that
\* moment is rejected with the local 'connection closed' error by the end of
\* the task (the close event follows the error event in the same task), and
\* no call is left pending.
C22_ErrorRejectsAllPending ==
    \A s \in Sockets :
        (micro = <<>> /\ rs[s] \in {"CONNECTING", "OPEN", "CLOSING"}) =>
            LET w == ErrorThenClose(s)
            IN /\ w.pending = {}
               /\ \A i \in pending :
                     /\ w.calls[i].status = "rejected"
                     /\ w.calls[i].by = "closed"
                     /\ w.calls[i].settles = 1

\* C22's case: a transport failed while an application call sent on it was
\* pending; the error event set the state (no handshake was rejected).
C22_Witness ==
    \E s \in Sockets, i \in CallIds :
        /\ rs[s] = "CLOSED" /\ state = "error" /\ pending = {}
        /\ calls[i].sock = s /\ calls[i].method = "app"
        /\ calls[i].by = "closed" /\ calls[i].status = "rejected"
        /\ \A j \in CallIds : calls[j].method = "connect" => calls[j].status = "resolved"

\* The error response to call i with the server's message m ("": none).
ErrorFrame(i, m) == [RejectFrame(i) EXCEPT !.msg = m]

\* C23: an error response to a pending call that is not the handshake rejects
\* that call, with the server's message or 'unknown error', and changes
\* neither another call, nor the state, the transport, the backoff, the
\* attempt counter or the reconnect timers.
C23_ErrorResponseRejectsOnlyItsCall ==
    \A i \in CallIds, m \in {"", "denied"} :
        (micro = <<>> /\ i \in pending /\ calls[i].method = "app") =>
            LET w == RunMicrotasks(HandleMessage(World(ErrorsRun), ErrorFrame(i, m)))
            IN /\ w.pending = pending \ {i}
               /\ w.calls[i].status = "rejected" /\ w.calls[i].by = "res"
               /\ w.calls[i].error = IF m = "" THEN "unknown error" ELSE "denied"
               /\ \A j \in CallIds \ {i} : w.calls[j] = calls[j]
               /\ w.state = state /\ w.ws = ws /\ w.rs = rs /\ w.code = code
               /\ w.backoffMs = backoffMs
               /\ w.reconnectAttempts = reconnectAttempts
               /\ w.timers = timers /\ w.health = health

\* C23's case: of two pending application calls one was rejected by an error
\* response that carried a message, and the other is still pending.
C23_Witness ==
    \E i, j \in CallIds :
        /\ calls[i].method = "app" /\ calls[i].status = "rejected"
        /\ calls[i].by = "res" /\ calls[i].error = "denied"
        /\ calls[j].method = "app" /\ j \in pending

C25_NoTimerOutstanding ==
    /\ Stop(World(LifecycleRun)).timers = {}
    /\ ~ForceReconnect(World(LifecycleRun)).ovf =>
            ForceReconnect(World(LifecycleRun)).timers = {}

\* C26: the close event of a transport that is not the one the client holds,
\* while it holds another, changes neither the handle, the pending calls, the
\* tick monitor, the state nor the reconnect timers.
C26_StaleCloseIgnored ==
    [][\A s \in Sockets :
          (ws # Null /\ ws # s /\ rs[s] # "CLOSED" /\ rs'[s] = "CLOSED") =>
              /\ ws' = ws /\ pending' = pending
              /\ tickCheckTimer' = tickCheckTimer
              /\ state' = state /\ timers' = timers]_vars

\* C27: when the grace timer armed by the open event of socket s fires after
\* s was closed, or while the client holds another transport, no handshake is
\* sent, the one-shot guard keeps its value and the state does not change.
C27_StaleGraceTimer ==
    [][\A s \in Sockets :
          (/\ s \in grace /\ s \notin grace'
           /\ (rs[s] = "CLOSED" \/ (ws # Null /\ ws # s))) =>
              /\ calls' = calls /\ pending' = pending
              /\ connectSent' = connectSent
              /\ state' = state]_vars

\* C28: whenever the state is connected the client holds a transport, and a
\* handshake sent on that transport was answered successfully.
C28_ConnectedHoldsTransport ==
    state = "connected" =>
        /\ ws # Null
        /\ \E i \in CallIds :
              /\ calls[i].method = "connect" /\ calls[i].status = "resolved"
              /\ calls[i].sock = ws

\* The close event of socket s, without an error event, in world w.
CloseEvent(w, s) ==
    RunMicrotasks(OnClose([w EXCEPT !.rs[s] = "CLOSED", !.opened = @ \ {s},
                                    !.code[s] = NoCode], s))

\* C29: updateCredentials with the current url and token changes nothing;
\* with a changed value, in a state other than disconnected and with a
\* transport held, it stores the values and closes that transport, whose
\* close event then schedules a reconnect; and every handshake is sent with
\* the token stored at that moment.
C29_UpdateCredentials ==
    /\ [](/\ UpdateCredentials(World(LifecycleRun), url, token) = World(LifecycleRun)
          /\ \A u \in Urls, t \in Tokens :
                LET w == UpdateCredentials(World(LifecycleRun), u, t)
                IN (/\ micro = <<>> /\ (u # url \/ t # token)
                    /\ state # "disconnected" /\ ws # Null) =>
                      /\ w.url = u /\ w.token = t
                      /\ w.rs[ws] \in {"CLOSING", "CLOSED"}
                      /\ Cardinality(CloseEvent(w, ws).timers \ w.timers) = 1)
    /\ [][\A i \in CallIds :
            (calls[i].status = "unused" /\ calls'[i].method = "connect") =>
                calls'[i].token = token']_vars

\* C29's case: after a handshake with the first token the credentials were
\* changed on a live connection, and the handshake of the reconnect that
\* followed carried the new token.
C29_Witness ==
    \E i, j \in CallIds :
        /\ calls[i].method = "connect" /\ calls[i].token = 1
        /\ calls[j].method = "connect" /\ calls[j].token = 2
        /\ calls[i].sock # calls[j].sock
        /\ token = 2 /\ lastCall = "start"

\* C30: in every reachable state backoffMs is 1000 * 2^reconnectAttempts ms
\* clamped to 30000 ms.
C30_BackoffMatchesAttempts == backoffMs = BackoffDelay(reconnectAttempts)

\* C30's case: six reconnects in a row were scheduled, the delay has reached
\* the clamp, and a reset by forceReconnect() came before them.
C30_Witness ==
    /\ reconnectAttempts = 6 /\ backoffMs = MaxBackoffMs
    /\ lastCall = "forceReconnect"

====
